---- MODULE Spec2Model ----
(***************************************************************************)
(* The request pipeline of application-mcp-server: graph.request with its  *)
(* credential fetch, per-category AsyncLimiter, global semaphore, retry    *)
(* loop and the single metrics sample recorded in its finally block.       *)
(*                                                                         *)
(* Every request() call is an asyncio task.  An action is one run of a     *)
(* task from one suspension point to the next: asyncio runs the code       *)
(* between two awaits that really suspend without interleaving.            *)
(* Time is discrete, one tick a second, and kept relative: a sleep holds   *)
(* the seconds it has left, a limiter its level at the present instant.    *)
(***************************************************************************)
EXTENDS Integers, Sequences, FiniteSets, TLC

\* ---------------------------------------------------------------- bounds
NumCalls == 2                    \* request() tasks under observation
MAX_CONCURRENT_REQUESTS == 1     \* config.MAX_CONCURRENT_REQUESTS, set small
RETRY_MAX_WAIT == 3              \* config.RETRY_MAX_WAIT, set small
MailMaxRequests == 2             \* RATE_LIMIT_MAIL  = "2,2"
MailTimePeriod == 2
UsersMaxRequests == 3            \* RATE_LIMIT_USERS = "3,1"
UsersTimePeriod == 1
NumThreads == 2                  \* threads calling into auth.py
MaxExchanges == 3                \* exchanges the identity provider is asked for
NumRecorders == 2                \* threads calling record_request
MaxSamples == 4                  \* record_request calls under observation
MaxSegments == 3                 \* segments of a path handed to _get_endpoint_category

\* ------------------------------------------------------ program constants
MAX_RETRIES == 3                 \* config.MAX_RETRIES default
DefaultRetryAfter == 5           \* headers.get("Retry-After", "5")
DefaultMaxRequests == 100        \* _parse_rate_limit: return (100, 60)
DefaultTimePeriod == 60
_shutdown_timeout == 25          \* main.py: seconds run_server waits for its tasks
CloseTimeout == 5                \* wait_for(close_http_client(), timeout=5)

Calls == 1..NumCalls
NoValue == -1                    \* Python None for integer-valued slots

Min(a, b) == IF a <= b THEN a ELSE b
Max(a, b) == IF a >= b THEN a ELSE b

\* ------------------------------------------------------------- endpoints
\* A path is a sequence of characters, so that substring tests are computed.
E_MAIL == <<"/","u","s","e","r","s","/","a","/","m","e","s","s","a","g","e","s">>
E_USER == <<"/","u","s","e","r","s","/","a">>
Endpoints == {E_MAIL, E_USER}

Contains(s, sub) ==
  \E i \in 1..(Len(s) - Len(sub) + 1) : SubSeq(s, i, i + Len(sub) - 1) = sub

StartsWith(s, p) == Len(s) >= Len(p) /\ SubSeq(s, 1, Len(p)) = p

UpperToLower ==
  [ch \in {"A","B","C","D","E","F","G","H","I","J","K","L","M","N","O","P",
           "Q","R","S","T","U","V","W","X","Y","Z"} |->
     CASE ch = "A" -> "a" [] ch = "B" -> "b" [] ch = "C" -> "c" [] ch = "D" -> "d"
       [] ch = "E" -> "e" [] ch = "F" -> "f" [] ch = "G" -> "g" [] ch = "H" -> "h"
       [] ch = "I" -> "i" [] ch = "J" -> "j" [] ch = "K" -> "k" [] ch = "L" -> "l"
       [] ch = "M" -> "m" [] ch = "N" -> "n" [] ch = "O" -> "o" [] ch = "P" -> "p"
       [] ch = "Q" -> "q" [] ch = "R" -> "r" [] ch = "S" -> "s" [] ch = "T" -> "t"
       [] ch = "U" -> "u" [] ch = "V" -> "v" [] ch = "W" -> "w" [] ch = "X" -> "x"
       [] ch = "Y" -> "y" [] ch = "Z" -> "z"]

Lower(s) ==
  [i \in 1..Len(s) |-> IF s[i] \in DOMAIN UpperToLower THEN UpperToLower[s[i]] ELSE s[i]]

S_messages == <<"/","m","e","s","s","a","g","e","s">>
S_mailfolder == <<"/","m","a","i","l","f","o","l","d","e","r">>
S_calendar == <<"/","c","a","l","e","n","d","a","r">>
S_events == <<"/","e","v","e","n","t","s">>
S_channels == <<"/","c","h","a","n","n","e","l","s","/">>
S_search == <<"/","s","e","a","r","c","h">>
S_dsearch == <<"$","s","e","a","r","c","h">>
S_users == <<"/","u","s","e","r","s">>
S_groups == <<"/","g","r","o","u","p","s">>
S_drive == <<"/","d","r","i","v","e">>
S_drives == <<"/","d","r","i","v","e","s","/">>
S_onlinemeetings == <<"/","o","n","l","i","n","e","m","e","e","t","i","n","g","s">>
S_meetings == <<"/","m","e","e","t","i","n","g","s">>

Categories ==
  {"mail", "calendar", "teams_messages", "search", "users", "files", "meetings", "global"}

_get_endpoint_category_users_first(endpoint) ==
  LET e == Lower(endpoint) IN
    IF StartsWith(e, S_users) \/ StartsWith(e, S_groups) THEN "users"
    ELSE IF Contains(e, S_messages) \/ Contains(e, S_mailfolder) THEN "mail"
    ELSE IF Contains(e, S_calendar) \/ Contains(e, S_events) THEN "calendar"
    ELSE IF Contains(e, S_channels) /\ Contains(e, S_messages) THEN "teams_messages"
    ELSE IF Contains(e, S_search) \/ Contains(e, S_dsearch) THEN "search"
    ELSE IF Contains(e, S_drive) \/ Contains(e, S_drives) THEN "files"
    ELSE IF Contains(e, S_onlinemeetings) \/ Contains(e, S_meetings) THEN "meetings"
    ELSE "global"

_get_endpoint_category(endpoint) ==
  LET e == Lower(endpoint) IN
    IF Contains(e, S_messages) \/ Contains(e, S_mailfolder) THEN "mail"
    ELSE IF Contains(e, S_calendar) \/ Contains(e, S_events) THEN "calendar"
    ELSE IF Contains(e, S_channels) /\ Contains(e, S_messages) THEN "teams_messages"
    ELSE IF Contains(e, S_search) \/ Contains(e, S_dsearch) THEN "search"
    ELSE IF (StartsWith(e, S_users) \/ StartsWith(e, S_groups))
            /\ ~Contains(e, S_messages) /\ ~Contains(e, S_calendar) THEN "users"
    ELSE IF Contains(e, S_drive) \/ Contains(e, S_drives) THEN "files"
    ELSE IF Contains(e, S_onlinemeetings) \/ Contains(e, S_meetings) THEN "meetings"
    ELSE "global"

\* (max_requests, time_period) of a category, as _parse_rate_limit returns it
\* for the configured string.
RateLimitOf(category) ==
  CASE category = "mail" -> <<MailMaxRequests, MailTimePeriod>>
    [] category = "users" -> <<UsersMaxRequests, UsersTimePeriod>>
    [] OTHER -> <<MailMaxRequests, MailTimePeriod>>


\* ------------------------------------------------------------ AsyncLimiter
\* aiolimiter's leaky bucket.  The level is kept multiplied by time_period,
\* so that the leak of max_rate/time_period per second is an integer per tick:
\* one permit weighs time_period, the capacity is max_rate * time_period.
\* instance numbers the AsyncLimiter objects constructed for a category.
NewLimiter == [level |-> 0, instance |-> 1]

_leak_none(lim, category, elapsed) == lim

\* What elapsed seconds drip out of the bucket.
_leak(lim, category, elapsed) ==
  [lim EXCEPT !.level = IF lim.level # 0
                        THEN Max(lim.level - elapsed * RateLimitOf(category)[1], 0)
                        ELSE lim.level]

has_capacity(lim, category) ==
  lim.level + RateLimitOf(category)[2]
     <= RateLimitOf(category)[1] * RateLimitOf(category)[2]

acquire(lim, category) == [lim EXCEPT !.level = @ + RateLimitOf(category)[2]]

get_rate_limiter_uncached(limiters, endpoint) ==
  LET category == _get_endpoint_category(endpoint) IN
    [k \in DOMAIN limiters \cup {category} |->
       IF k # category THEN limiters[k]
       ELSE IF k \in DOMAIN limiters
            THEN [level |-> 0, instance |-> limiters[k].instance + 1]
            ELSE NewLimiter]

\* get_rate_limiter: the cached limiter of the category, created on first use.
get_rate_limiter(limiters, endpoint) ==
  LET category == _get_endpoint_category(endpoint) IN
    IF category \in DOMAIN limiters THEN limiters
    ELSE [k \in DOMAIN limiters \cup {category} |->
            IF k = category THEN NewLimiter ELSE limiters[k]]

\* ------------------------------------------------------------- HTTP client
get_http_client_always_new(client, instances) ==
  [client |-> Len(instances) + 1, clients |-> Append(instances, "open")]

\* graph.get_http_client: the shared client, constructed when _http_client
\* is None.  There is no await between the test and the assignment.
get_http_client(client, instances) ==
  IF client = 0
  THEN [client |-> Len(instances) + 1, clients |-> Append(instances, "open")]
  ELSE [client |-> client, clients |-> instances]

\* --------------------------------------------------------------- semaphore
\* asyncio.Semaphore: _value is the number of free slots.
get_request_semaphore(sem) == IF sem = NoValue THEN MAX_CONCURRENT_REQUESTS ELSE sem

locked_never(sem) == sem < 0

locked(sem) == sem = 0

release_unless_raised(sem, raised) == IF raised THEN sem ELSE sem + 1

\* request_slot's finally: the slot goes back whether the guarded block
\* ended normally (raised = FALSE) or by an exception or a cancellation.
release_kept(sem, raised) == IF raised THEN sem + 1 ELSE sem

release(sem, raised) == sem + 1

\* ----------------------------------------------------------------- metrics
NewMetrics ==
  [total_requests |-> 0, success_count |-> 0, error_count |-> 0,
   rate_limit_count |-> 0, server_error_count |-> 0]

\* The duration sums and the error tag are left out: no counter depends on
\* them (_update_metrics never reads its error argument).
_update_metrics(m, status_code) ==
  [total_requests |-> m.total_requests + 1,
   success_count |-> IF 200 <= status_code /\ status_code < 300
                     THEN m.success_count + 1 ELSE m.success_count,
   error_count |-> IF ~(200 <= status_code /\ status_code < 300) /\ status_code >= 400
                   THEN m.error_count + 1 ELSE m.error_count,
   rate_limit_count |-> IF status_code = 429
                        THEN m.rate_limit_count + 1 ELSE m.rate_limit_count,
   server_error_count |-> IF status_code >= 500
                          THEN m.server_error_count + 1 ELSE m.server_error_count]

record_request_if_answered(mc, endpoint, status_code) ==
  IF status_code = 0 THEN mc
  ELSE [global |-> _update_metrics(mc.global, status_code),
        endpoints |->
          [e \in DOMAIN mc.endpoints \cup {endpoint} |->
             IF e = endpoint
             THEN _update_metrics(IF e \in DOMAIN mc.endpoints
                                  THEN mc.endpoints[e] ELSE NewMetrics, status_code)
             ELSE mc.endpoints[e]]]

record_request_known_endpoints(mc, endpoint, status_code) ==
  [global |-> _update_metrics(mc.global, status_code),
   endpoints |->
     [e \in DOMAIN mc.endpoints |->
        IF e = endpoint THEN _update_metrics(mc.endpoints[e], status_code)
        ELSE mc.endpoints[e]]]

record_request(mc, endpoint, status_code) ==
  [global |-> _update_metrics(mc.global, status_code),
   endpoints |->
     [e \in DOMAIN mc.endpoints \cup {endpoint} |->
        IF e = endpoint
        THEN _update_metrics(IF e \in DOMAIN mc.endpoints
                             THEN mc.endpoints[e] ELSE NewMetrics, status_code)
        ELSE mc.endpoints[e]]]

\* ----------------------------------------------------- Retry-After header
\* A header is absent or carries a string (a sequence of characters).
Absent == [present |-> FALSE, value |-> <<>>]
Header(v) == [present |-> TRUE, value |-> v]
RetryAfterHeaders ==
  {Absent, Header(<<"2">>), Header(<<"F","r","i">>)}

Digits == {"0","1","2","3","4","5","6","7","8","9"}
DigitValue(ch) ==
  CASE ch = "0" -> 0 [] ch = "1" -> 1 [] ch = "2" -> 2 [] ch = "3" -> 3
    [] ch = "4" -> 4 [] ch = "5" -> 5 [] ch = "6" -> 6 [] ch = "7" -> 7
    [] ch = "8" -> 8 [] ch = "9" -> 9

RECURSIVE DecimalValue(_)
DecimalValue(s) ==
  IF s = <<>> THEN 0
  ELSE 10 * DecimalValue(SubSeq(s, 1, Len(s) - 1)) + DigitValue(s[Len(s)])

\* str.strip(): the string without its leading and trailing blanks.
Strip(s) ==
  LET inked == {i \in 1..Len(s) : s[i] # " "} IN
    IF inked = {} THEN <<>>
    ELSE SubSeq(s, CHOOSE i \in inked : \A j \in inked : i <= j,
                   CHOOSE i \in inked : \A j \in inked : i >= j)

\* str.split(sep) for a one-character separator.
RECURSIVE Split(_, _)
Split(s, sep) ==
  LET at == {i \in 1..Len(s) : s[i] = sep} IN
    IF at = {} THEN <<s>>
    ELSE LET i == CHOOSE k \in at : \A j \in at : k <= j
         IN <<SubSeq(s, 1, i - 1)>> \o Split(SubSeq(s, i + 1, Len(s)), sep)

\* Python int(str): the number a decimal string denotes, blanks around it and
\* a sign before it allowed; ValueError otherwise.
PyInt(s) ==
  LET t == Strip(s)
      signed == t # <<>> /\ t[1] \in {"-", "+"}
      body == IF signed THEN Tail(t) ELSE t
  IN IF body # <<>> /\ \A i \in 1..Len(body) : body[i] \in Digits
     THEN [ok |-> TRUE,
           val |-> IF signed /\ t[1] = "-" THEN 0 - DecimalValue(body)
                   ELSE DecimalValue(body)]
     ELSE [ok |-> FALSE, val |-> 0]

\* Python float(str) for a decimal string with an optional sign and an
\* optional fraction; val is the whole part (the strings the model parses
\* have no other fraction than zeros).  ValueError otherwise.
PyFloat(s) ==
  LET t == Strip(s)
      signed == t # <<>> /\ t[1] \in {"-", "+"}
      body == IF signed THEN Tail(t) ELSE t
      dots == {i \in 1..Len(body) : body[i] = "."}
      whole == IF dots = {} THEN body
               ELSE SubSeq(body, 1, (CHOOSE i \in dots : TRUE) - 1)
      frac == IF dots = {} THEN <<>>
              ELSE SubSeq(body, (CHOOSE i \in dots : TRUE) + 1, Len(body))
  IN IF /\ Cardinality(dots) <= 1
        /\ whole \o frac # <<>>
        /\ \A i \in 1..Len(whole) : whole[i] \in Digits
        /\ \A i \in 1..Len(frac) : frac[i] \in Digits
     THEN [ok |-> TRUE,
           val |-> IF signed /\ t[1] = "-" THEN 0 - DecimalValue(whole)
                   ELSE DecimalValue(whole)]
     ELSE [ok |-> FALSE, val |-> 0]

\* _parse_rate_limit: "max_requests,time_period"; a ValueError of int() or
\* float() or the IndexError of parts[1] gives the default (100, 60).
_parse_rate_limit(rate_limit_str) ==
  LET parts == Split(rate_limit_str, ",")
      max_requests == PyInt(Strip(parts[1]))
  IN IF ~max_requests.ok \/ Len(parts) < 2
     THEN <<DefaultMaxRequests, DefaultTimePeriod>>
     ELSE LET time_period == PyFloat(Strip(parts[2]))
          IN IF ~time_period.ok THEN <<DefaultMaxRequests, DefaultTimePeriod>>
             ELSE <<max_requests.val, time_period.val>>

\* int(response.headers.get("Retry-After", "5"))
RetryAfter(hdr) ==
  IF hdr.present THEN PyInt(hdr.value) ELSE [ok |-> TRUE, val |-> DefaultRetryAfter]


\* ------------------------------------------------------------------- state
VARIABLES
  call,                \* call[c]: the locals of request() task c and where it is
  obs,                 \* obs[c]: what task c has done so far (history)
  _rate_limiters,      \* rate_limiter._rate_limiters: category -> limiter
  _request_semaphore,  \* concurrency._request_semaphore: NoValue or its _value
  _http_client,        \* graph._http_client: 0 (None) or the number of the
                       \* httpx.AsyncClient instance it refers to
  clients,             \* clients[i]: instance i of httpx.AsyncClient is
                       \* "open" or "closed" (its is_closed)
  _cached_token,       \* auth._cached_token: 0 (None) or the token's number
  issued,              \* tokens the identity provider has issued so far
  metrics,             \* metrics_collector: global and per-endpoint aggregates
  admitted,            \* admitted[category]: the ages, in seconds, of the permits
                       \* granted within the last time_period seconds
  direct,              \* the get_transcript_content task: its locals and history
  thread,              \* thread[t]: a thread inside auth.get_token or
                       \* auth.clear_token_cache, its locals and history
  _token_lock,         \* auth._token_lock: 0 (free) or the thread holding it
  cache_expired,       \* the lifetime of the token in _cached_token has run out
  last_clear,          \* tokens issued when clear_token_cache last ran (NoValue:
                       \* it never ran)
  classified,          \* a path and what _get_endpoint_category made of it
  rate_config,         \* a RATE_LIMIT_* string and what get_rate_limiter and
                       \* the first acquire made of it
  server,              \* main.run_server: where the process is in its life
  recorder,            \* recorder[t]: a thread inside metrics_collector.record_request
  metrics_lock,        \* metrics_collector._lock: 0 (free) or the thread holding it
  samples,             \* record_request calls that have completed, by endpoint
  cache_thread,        \* cache_thread[t]: a thread inside a TokenCache method,
                       \* its locals and where it is
  _lock,               \* TokenCache._lock: 0 (free) or the thread holding it
  _cache               \* TokenCache._cache: user_id -> token data

pipeline_vars == <<call, obs, _rate_limiters, _request_semaphore, _http_client, clients,
                   _cached_token, issued, metrics, admitted>>
auth_vars == <<thread, _token_lock, cache_expired, last_clear>>
recorder_vars == <<recorder, metrics_lock, samples>>
token_cache_vars == <<cache_thread, _lock, _cache>>
later_vars == <<server, recorder_vars, token_cache_vars>>
other_vars == <<direct, auth_vars, classified, rate_config, later_vars>>
vars == <<pipeline_vars, other_vars>>

\* Final statuses of a response: 300 stands for every status below 400 that
\* is not 2xx (httpx follows only redirects that carry a Location header).
Statuses == {200, 300, 404, 429, 500}
MaxRetriesArgs == {NoValue, 0}         \* max_retries: None or 0

IdleCall ==
  [pc |-> "idle", endpoint |-> E_USER, max_retries |-> 0, retry_count |-> 0,
   status_code |-> 0, error_type |-> "None", sleep_left |-> 0, token |-> 0,
   client |-> 0]

NoObs ==
  [net_calls |-> 0, permits |-> 0, acq |-> 0, rel |-> 0, sleeps |-> 0,
   last_sleep |-> 0, resp_status |-> 0, resp_hdr |-> Absent, resp_attempt |-> 0,
   only5xx |-> TRUE, sent |-> {}, outcome |-> "pending"]

\* The get_transcript_content task before it is called.
IdleDirect ==
  [pc |-> "idle", token |-> 0, status_code |-> 0, net_calls |-> 0,
   permits |-> 0, acq |-> 0, outcome |-> "pending"]

\* No exception, and a thread that is in neither function of auth.py.
NoError == [type |-> "none", error |-> "", error_description |-> ""]
Threads == 1..NumThreads
IdleThread ==
  [pc |-> "idle", op |-> "none", mark |-> NoValue, exchanged |-> FALSE,
   token |-> 0, reply |-> NoError, raised |-> NoError]

Unclassified == [path |-> <<>>, category |-> "unset"]
Unconfigured ==
  [rate_string |-> <<>>, stage |-> "unset", max_requests |-> 0,
   time_period |-> 0, raised |-> "none"]

InitPipeline ==
  /\ call = [c \in Calls |-> IdleCall]
  /\ obs = [c \in Calls |-> NoObs]
  /\ _rate_limiters = [k \in {} |-> NewLimiter]
  /\ _request_semaphore = NoValue
  /\ _http_client = 0
  /\ clients = <<>>
  /\ _cached_token = 0
  /\ issued = 0
  /\ metrics = [global |-> NewMetrics, endpoints |-> [e \in {} |-> NewMetrics]]
  /\ admitted = [k \in Categories |-> <<>>]

\* run_server before any signal, and a metrics collector nobody is in.
Serving ==
  [phase |-> "serving", waited |-> 0, at_signal |-> {}, http |-> "none",
   db |-> "none"]
RecorderThreads == 1..NumRecorders
EmptyCollector == [global |-> NewMetrics, endpoints |-> [e \in {} |-> NewMetrics]]
IdleRecorder ==
  [pc |-> "idle", endpoint |-> <<>>, status_code |-> 0, loaded |-> EmptyCollector]

\* A TokenCache nobody is in, and one that has loaded an empty file.
CacheThreads == 1..NumThreads
USER_ID == "u"
NoTokenData == [access_token |-> 0, refresh_token |-> 0, expires_at |-> "expired"]
IdleCacheThread ==
  [pc |-> "idle", op |-> "none", access_token |-> 0, refresh_token |-> 0,
   refreshed |-> FALSE, result |-> "pending", token_data |-> NoTokenData]
NoTokens == [u \in {} |-> NoTokenData]

InitServing ==
  /\ server = Serving
  /\ recorder = [t \in RecorderThreads |-> IdleRecorder]
  /\ metrics_lock = 0
  /\ samples = [e \in Endpoints |-> [ok |-> 0, failed |-> 0]]

InitLater ==
  /\ InitServing
  /\ cache_thread = [t \in CacheThreads |-> IdleCacheThread]
  /\ _lock = 0
  /\ _cache = NoTokens

InitAuth ==
  /\ thread = [t \in Threads |-> IdleThread]
  /\ _token_lock = 0
  /\ cache_expired = FALSE
  /\ last_clear = NoValue

Init ==
  /\ InitLater
  /\ InitPipeline
  /\ direct = IdleDirect
  /\ InitAuth
  /\ classified = Unclassified
  /\ rate_config = Unconfigured

\* ---------------------------------------------------------- retry policy
CanRetry_one_less(retry_count, max_retries) == retry_count + 1 < max_retries

\* "retry_count < max_retries": an attempt is left after this one.
CanRetry(retry_count, max_retries) == retry_count < max_retries

IsRateLimited(status) == status = 429
IsServerError_any_error(status) == status >= 400

IsServerError(status) == status >= 500
IsError(status) == status >= 400

\* The except clause of the attempt: httpx.HTTPStatusError is the only
\* exception request() catches; a transport error is an httpx.RequestError.
Catches(exc) == exc = "HTTPStatusError"

Backoff_capped(retry_count) == Min(2 ^ retry_count, RETRY_MAX_WAIT)

\* wait_time = (2 ** retry_count) * 1 (lines 149 and 205)
Backoff(retry_count) == 2 ^ retry_count

\* Lines 126-217: what request() does with a response, up to the sleep, the
\* return or the raise.  kind is "sleep", "return" or "raise".
HandleResponse(cr, status, hdr) ==
  LET ra == RetryAfter(hdr)
      rc == cr.retry_count
      mr == cr.max_retries
  IN
    IF IsRateLimited(status) /\ ~ra.ok
    THEN [kind |-> "raise", exc |-> "ValueError", error_type |-> "rate_limit",
          wait |-> 0]
    ELSE IF IsRateLimited(status) /\ CanRetry(rc, mr)
    THEN [kind |-> "sleep", exc |-> "none", error_type |-> "rate_limit",
          wait |-> Min(ra.val, RETRY_MAX_WAIT)]
    ELSE IF IsServerError(status) /\ CanRetry(rc, mr)
    THEN [kind |-> "sleep", exc |-> "none", error_type |-> "server_error",
          wait |-> Backoff(rc)]
    ELSE IF IsError(status)
    THEN \* raise_for_status() raises HTTPStatusError, caught at line 198
         IF Catches("HTTPStatusError") /\ CanRetry(rc, mr) /\ IsServerError(status)
         THEN [kind |-> "sleep", exc |-> "none", error_type |-> "http_error",
               wait |-> Backoff(rc)]
         ELSE [kind |-> "raise", exc |-> "HTTPStatusError",
               error_type |-> "http_error", wait |-> 0]
    ELSE [kind |-> "return", exc |-> "none", error_type |-> cr.error_type,
          wait |-> 0]

Finally_first_failure(mc, cr) ==
  record_request(mc, cr.endpoint,
                 IF cr.error_type = "rate_limit" THEN 429 ELSE cr.status_code)

\* The finally block of request(): one record_request for the call.
Finally(mc, cr) == record_request(mc, cr.endpoint, cr.status_code)

NeedsPermit_first_only(retry_count) == retry_count = 0

\* `async with rate_limiter` (line 115) is inside the while loop: every
\* iteration, whatever its retry_count, acquires from the limiter.
NeedsPermit(retry_count) == TRUE

AttemptToken_refetched(cr) == cr.token + cr.retry_count

\* The token an attempt sends: headers is built once, before the loop (lines
\* 96-102), from the token of the one auth.get_token() call.
AttemptToken(cr) == cr.token

\* Lines 112-118: the loop test, then `async with rate_limiter`, `async with
\* request_slot()` and the start of client.request, as far as the task gets
\* without suspending.  Yields the new call, obs, limiters and semaphore.
StartAttempt(cr, ob, limiters, sem) ==
  LET category == _get_endpoint_category(cr.endpoint)
      lim == limiters[category]
      s0 == get_request_semaphore(sem)
      need == NeedsPermit(cr.retry_count)
      got == [ob EXCEPT !.permits = IF need THEN @ + 1 ELSE @]
      taken == IF need THEN [limiters EXCEPT ![category] = acquire(lim, category)]
               ELSE limiters
  IN
    IF ~(cr.retry_count <= cr.max_retries)
    THEN [call |-> [cr EXCEPT !.pc = "done"],
          obs |-> [ob EXCEPT !.outcome = "Exception"],
          limiters |-> limiters, sem |-> sem, granted |-> FALSE, ended |-> TRUE]
    ELSE IF need /\ ~has_capacity(lim, category)
    THEN [call |-> [cr EXCEPT !.pc = "limiter"], obs |-> ob,
          limiters |-> limiters, sem |-> sem, granted |-> FALSE, ended |-> FALSE]
    ELSE IF locked(s0)
    THEN [call |-> [cr EXCEPT !.pc = "slot"], obs |-> got,
          limiters |-> taken, sem |-> s0, granted |-> need, ended |-> FALSE]
    ELSE [call |-> [cr EXCEPT !.pc = "network"],
          obs |-> [got EXCEPT !.acq = @ + 1, !.net_calls = @ + 1,
                              !.sent = @ \cup {AttemptToken(cr)}],
          limiters |-> taken, sem |-> s0 - 1, granted |-> need, ended |-> FALSE]

\* Applies the result of StartAttempt to the state.
Proceed(c, r) ==
  /\ call' = [call EXCEPT ![c] = r.call]
  /\ obs' = [obs EXCEPT ![c] = r.obs]
  /\ _rate_limiters' = r.limiters
  /\ _request_semaphore' = r.sem
  /\ admitted' = IF r.granted
                 THEN [admitted EXCEPT ![_get_endpoint_category(r.call.endpoint)] =
                         Append(@, 0)]
                 ELSE admitted
  /\ metrics' = IF r.ended THEN Finally(metrics, r.call) ELSE metrics


\* ----------------------------------------------------------------- actions
\* A call of request(method, endpoint, max_retries): lines 88-118.  ok tells
\* whether the identity provider hands out a token in auth.get_token.
Request(c, endpoint, max_retries, ok) ==
  /\ UNCHANGED other_vars
  /\ call[c].pc = "idle"
  /\ LET cr == [IdleCall EXCEPT !.endpoint = endpoint,
                  !.max_retries = IF max_retries = NoValue THEN MAX_RETRIES
                                  ELSE max_retries,
                  !.token = IF ok THEN issued + 1 ELSE 0,
                  !.client = IF ok THEN get_http_client(_http_client, clients).client
                             ELSE 0]
     IN IF ~ok
        THEN \* get_token raises: nothing but the finally block runs
             /\ call' = [call EXCEPT ![c] = [cr EXCEPT !.pc = "done"]]
             /\ obs' = [obs EXCEPT ![c].outcome = "Exception"]
             /\ metrics' = Finally(metrics, cr)
             /\ UNCHANGED <<_rate_limiters, _request_semaphore, _http_client, clients,
                            _cached_token, issued, admitted>>
        ELSE /\ issued' = issued + 1
             /\ _cached_token' = issued + 1
             /\ _http_client' = get_http_client(_http_client, clients).client
             /\ clients' = get_http_client(_http_client, clients).clients
             /\ Proceed(c, StartAttempt(cr, obs[c],
                             get_rate_limiter(_rate_limiters, endpoint),
                             _request_semaphore))

\* AsyncLimiter.acquire of a waiting task finds capacity.
LimiterGrant(c) ==
  /\ UNCHANGED other_vars
  /\ call[c].pc = "limiter"
  /\ has_capacity(_rate_limiters[_get_endpoint_category(call[c].endpoint)],
                  _get_endpoint_category(call[c].endpoint))
  /\ Proceed(c, StartAttempt(call[c], obs[c], _rate_limiters, _request_semaphore))
  /\ UNCHANGED <<_http_client, clients, _cached_token, issued>>

\* semaphore.acquire of a waiting task gets a slot; client.request starts.
SlotGrant(c) ==
  /\ UNCHANGED other_vars
  /\ call[c].pc = "slot"
  /\ ~locked(_request_semaphore)
  /\ _request_semaphore' = _request_semaphore - 1
  /\ call' = [call EXCEPT ![c].pc = "network"]
  /\ obs' = [obs EXCEPT ![c].acq = @ + 1, ![c].net_calls = @ + 1,
                        ![c].sent = @ \cup {AttemptToken(call[c])}]
  /\ UNCHANGED <<_rate_limiters, _http_client, clients, _cached_token, issued,
                 metrics, admitted>>

\* client.request returns a response: the slot is released, then lines 126-217.
Response(c, status, hdr) ==
  /\ UNCHANGED other_vars
  /\ call[c].pc = "network"
  /\ clients[call[c].client] = "open"   \* a closed client sends nothing
  /\ LET cr == [call[c] EXCEPT !.status_code = status]
         r == HandleResponse(cr, status, hdr)
         ob == [obs[c] EXCEPT !.rel = @ + 1, !.resp_status = status,
                  !.resp_hdr = hdr, !.resp_attempt = cr.retry_count,
                  !.only5xx = @ /\ status >= 500]
     IN /\ _request_semaphore' = release(_request_semaphore, FALSE)
        /\ IF r.kind = "sleep"
           THEN /\ call' = [call EXCEPT ![c] =
                      [cr EXCEPT !.pc = "sleep", !.error_type = r.error_type,
                                 !.sleep_left = Max(r.wait, 0)]]
                /\ obs' = [obs EXCEPT ![c] =
                      [ob EXCEPT !.sleeps = @ + 1, !.last_sleep = r.wait]]
                /\ UNCHANGED metrics
           ELSE /\ call' = [call EXCEPT ![c] =
                      [cr EXCEPT !.pc = "done", !.error_type = r.error_type]]
                /\ obs' = [obs EXCEPT ![c] =
                      [ob EXCEPT !.outcome = IF r.kind = "return" THEN "returned"
                                             ELSE r.exc]]
                /\ metrics' = Finally(metrics, cr)
  /\ UNCHANGED <<_rate_limiters, _http_client, clients, _cached_token, issued, admitted>>

\* client.request raises a transport error (httpx.ConnectError, a timeout, a
\* DNS failure): the slot is released and the except clause is tried.
NetworkError(c) ==
  /\ UNCHANGED other_vars
  /\ call[c].pc = "network"
  /\ _request_semaphore' = release(_request_semaphore, TRUE)
  /\ IF Catches("RequestError") /\ CanRetry(call[c].retry_count, call[c].max_retries)
     THEN /\ call' = [call EXCEPT ![c].pc = "sleep", ![c].error_type = "http_error",
                                  ![c].sleep_left = Backoff(call[c].retry_count)]
          /\ obs' = [obs EXCEPT ![c].rel = @ + 1, ![c].sleeps = @ + 1,
                                ![c].last_sleep = Backoff(call[c].retry_count)]
          /\ UNCHANGED metrics
     ELSE /\ call' = [call EXCEPT ![c].pc = "done"]
          /\ obs' = [obs EXCEPT ![c].rel = @ + 1, ![c].outcome = "RequestError"]
          /\ metrics' = Finally(metrics, call[c])
  /\ UNCHANGED <<_rate_limiters, _http_client, clients, _cached_token, issued, admitted>>

\* asyncio.sleep returns: retry_count += 1, continue.
Wake(c) ==
  /\ UNCHANGED other_vars
  /\ call[c].pc = "sleep"
  /\ call[c].sleep_left = 0
  /\ Proceed(c, StartAttempt([call[c] EXCEPT !.retry_count = @ + 1],
                             [obs[c] EXCEPT !.resp_hdr = Absent, !.last_sleep = 0],
                             _rate_limiters, _request_semaphore))
  /\ UNCHANGED <<_http_client, clients, _cached_token, issued>>

\* The task is cancelled while suspended: CancelledError is raised at the
\* await it is in, and unwinds through request_slot (when in the network
\* call) and the finally block of request().
Cancel(c) ==
  /\ UNCHANGED other_vars
  /\ call[c].pc \in {"limiter", "slot", "network", "sleep"}
  /\ call' = [call EXCEPT ![c].pc = "done", ![c].sleep_left = 0]
  /\ obs' = [obs EXCEPT ![c].outcome = "CancelledError",
                        ![c].rel = IF call[c].pc = "network" THEN @ + 1 ELSE @]
  /\ _request_semaphore' = IF call[c].pc = "network"
                           THEN release(_request_semaphore, TRUE)
                           ELSE _request_semaphore
  /\ metrics' = Finally(metrics, call[c])
  /\ UNCHANGED <<_rate_limiters, _http_client, clients, _cached_token, issued, admitted>>

\* One second passes: sleeps run down, buckets drip, granted permits age.
Older(ages, category) ==
  SelectSeq([i \in 1..Len(ages) |-> ages[i] + 1],
            LAMBDA a : a < RateLimitOf(category)[2])

\* What a second does to the pipeline.
TickPipeline ==
  /\ \A c \in Calls : ~(call[c].pc = "sleep" /\ call[c].sleep_left = 0)
  /\ call' = [c \in Calls |->
                IF call[c].pc = "sleep"
                THEN [call[c] EXCEPT !.sleep_left = Max(@ - 1, 0)] ELSE call[c]]
  /\ _rate_limiters' = [k \in DOMAIN _rate_limiters |-> _leak(_rate_limiters[k], k, 1)]
  /\ admitted' = [k \in Categories |-> Older(admitted[k], k)]
  /\ UNCHANGED <<obs, _request_semaphore, _http_client, clients, _cached_token, issued,
                 metrics>>

Tick == TickPipeline /\ UNCHANGED other_vars

Next ==
  \/ \E c \in Calls, e \in Endpoints, mr \in MaxRetriesArgs, ok \in BOOLEAN :
        Request(c, e, mr, ok)
  \/ \E c \in Calls : LimiterGrant(c)
  \/ \E c \in Calls : SlotGrant(c)
  \/ \E c \in Calls, status \in Statuses :
        \E hdr \in (IF status = 429 THEN RetryAfterHeaders ELSE {Absent}) :
           Response(c, status, hdr)
  \/ \E c \in Calls : NetworkError(c)
  \/ \E c \in Calls : Wake(c)
  \/ \E c \in Calls : Cancel(c)
  \/ Tick

Spec == Init /\ [][Next]_vars

\* The pipeline under the scheduling the event loop and the network give it.
\* One call retries (any max_retries, with or without a token) while a call
\* with one retry competes with it for the same quota and the only slot.
\* Time passes, every network call ends (with a response or an error), a
\* sleep that has run out returns, and a task waiting for a permit or a slot
\* gets it if it is free again and again (aiolimiter and asyncio.Semaphore
\* wake their waiters in FIFO order).
NetworkCallEnds(c) ==
  \/ \E status \in Statuses :
        \E hdr \in (IF status = 429 THEN RetryAfterHeaders ELSE {Absent}) :
           Response(c, status, hdr)
  \/ NetworkError(c)

RetryingRequest(max_retries, ok) == Request(1, E_MAIL, max_retries, ok)
CompetingRequest == Request(2, E_MAIL, 1, TRUE)

NextLive ==
  \/ \E mr \in MaxRetriesArgs, ok \in BOOLEAN : RetryingRequest(mr, ok)
  \/ CompetingRequest
  \/ \E c \in Calls : LimiterGrant(c)
  \/ \E c \in Calls : SlotGrant(c)
  \/ \E c \in Calls : NetworkCallEnds(c)
  \/ \E c \in Calls : Wake(c)
  \/ Tick

\* The condition under which each action can take a step that changes the
\* state (its ENABLED <<A>>_vars).
CanTick ==
  /\ \A c \in Calls : ~(call[c].pc = "sleep" /\ call[c].sleep_left = 0)
  /\ \/ \E c \in Calls : call[c].pc = "sleep"
     \/ \E k \in DOMAIN _rate_limiters : _leak(_rate_limiters[k], k, 1) # _rate_limiters[k]
     \/ \E k \in Categories : admitted[k] # <<>>
CanEnd(c) == call[c].pc = "network"
CanWake(c) == call[c].pc = "sleep" /\ call[c].sleep_left = 0
CanGrantPermit(c) ==
  /\ call[c].pc = "limiter"
  /\ has_capacity(_rate_limiters[_get_endpoint_category(call[c].endpoint)],
                  _get_endpoint_category(call[c].endpoint))
CanGrantSlot(c) == call[c].pc = "slot" /\ ~locked(_request_semaphore)

\* WF_vars(A) is []<>(~ENABLED <<A>>_vars) \/ []<><<A>>_vars and SF_vars(A)
\* is <>[](~ENABLED <<A>>_vars) \/ []<><<A>>_vars; they are written out
\* with the conditions above.
Fairness ==
  /\ []<>(~CanTick) \/ []<><<Tick>>_vars
  /\ \A c \in Calls :
        /\ []<>(~CanEnd(c)) \/ []<><<NetworkCallEnds(c)>>_vars
        /\ []<>(~CanWake(c)) \/ []<><<Wake(c)>>_vars
        /\ <>[](~CanGrantPermit(c)) \/ []<><<LimiterGrant(c)>>_vars
        /\ <>[](~CanGrantSlot(c)) \/ []<><<SlotGrant(c)>>_vars

SpecLive == Init /\ [][NextLive]_vars /\ Fairness

\* ------------------------------------------- get_transcript_content
\* graph.get_transcript_content (lines 588-632) does not call request(): it
\* takes a token, takes the shared client and awaits client.get itself.  No
\* limiter, no request_slot and no metrics_collector is touched on the way.
GetTranscriptContent(ok) ==
  /\ UNCHANGED later_vars
  /\ direct.pc = "idle"
  /\ IF ~ok
     THEN \* auth.get_token raises
          /\ direct' = [direct EXCEPT !.pc = "done", !.outcome = "Exception"]
          /\ UNCHANGED <<_http_client, clients, _cached_token, issued>>
     ELSE /\ issued' = issued + 1
          /\ _cached_token' = issued + 1
          /\ _http_client' = get_http_client(_http_client, clients).client
          /\ clients' = get_http_client(_http_client, clients).clients
          /\ direct' = [direct EXCEPT !.pc = "network", !.token = issued + 1,
                                      !.net_calls = @ + 1]
  /\ UNCHANGED <<call, obs, _rate_limiters, _request_semaphore, metrics,
                 admitted, auth_vars, classified, rate_config>>

\* client.get returns: raise_for_status() on a status >= 400, else the text.
TranscriptResponse(status) ==
  /\ UNCHANGED later_vars
  /\ direct.pc = "network"
  /\ direct' = [direct EXCEPT !.pc = "done", !.status_code = status,
                              !.outcome = IF IsError(status) THEN "HTTPStatusError"
                                          ELSE "returned"]
  /\ UNCHANGED <<pipeline_vars, auth_vars, classified, rate_config>>

\* client.get raises a transport error, or the task is cancelled in it.
TranscriptFailure(exc) ==
  /\ UNCHANGED later_vars
  /\ direct.pc = "network"
  /\ direct' = [direct EXCEPT !.pc = "done", !.outcome = exc]
  /\ UNCHANGED <<pipeline_vars, auth_vars, classified, rate_config>>

\* One request() task (a wrapper such as get_user_profile or list_emails)
\* next to the get_transcript_content task.
NextWrappers ==
  \/ \E e \in Endpoints, mr \in MaxRetriesArgs, ok \in BOOLEAN : Request(1, e, mr, ok)
  \/ \E status \in Statuses :
        \E hdr \in (IF status = 429 THEN RetryAfterHeaders ELSE {Absent}) :
           Response(1, status, hdr)
  \/ NetworkError(1)
  \/ Wake(1)
  \/ Cancel(1)
  \/ Tick
  \/ \E ok \in BOOLEAN : GetTranscriptContent(ok)
  \/ \E status \in Statuses : TranscriptResponse(status)
  \/ \E exc \in {"RequestError", "CancelledError"} : TranscriptFailure(exc)

SpecWrappers == Init /\ [][NextWrappers]_vars


\* ------------------------------------------------------------------ auth.py
\* get_token and clear_token_cache as threads run them.  A token is the
\* number of the exchange that issued it; 0 stands for None.

\* What acquire_token_for_client can come back with: a dict with
\* "access_token", or one with "error" and "error_description".
ProviderReplies ==
  {[type |-> "access_token", error |-> "", error_description |-> ""],
   [type |-> "error", error |-> "invalid_client",
    error_description |-> "AADSTS7000215: Invalid client secret provided"],
   [type |-> "error", error |-> "unauthorized_client",
    error_description |-> "AADSTS700016: Application not found in the directory"]}

get_app_kept == [token_cache |-> issued]

\* get_app builds a new msal.ConfidentialClientApplication on every call, with
\* no token_cache argument: the application starts with an empty token cache.
get_app == [token_cache |-> 0]

\* app.acquire_token_silent: the token in the application's cache, or None.
acquire_token_silent(app) == app.token_cache

\* Lines 67-82: the lock is taken, the application is built and asked for a
\* cached token; without one the exchange with the identity provider starts,
\* the lock held while it is awaited.
GetToken(t) ==
  /\ UNCHANGED later_vars
  /\ thread[t].pc = "idle"
  /\ _token_lock = 0
  /\ issued < MaxExchanges
  /\ LET result == acquire_token_silent(get_app)
         th == [IdleThread EXCEPT !.op = "get_token", !.mark = last_clear]
     IN IF result # 0
        THEN /\ _cached_token' = result
             /\ thread' = [thread EXCEPT ![t] =
                              [th EXCEPT !.pc = "done", !.token = result]]
             /\ UNCHANGED _token_lock
        ELSE /\ _token_lock' = t
             /\ thread' = [thread EXCEPT ![t] =
                              [th EXCEPT !.pc = "exchange", !.exchanged = TRUE]]
             /\ UNCHANGED _cached_token
  /\ UNCHANGED <<call, obs, _rate_limiters, _request_semaphore, _http_client, clients,
                 issued, metrics, admitted, direct, cache_expired, last_clear,
                 classified, rate_config>>

\* Lines 86-109: acquire_token_for_client has returned.  With an access token
\* the result is stored in _cached_token and the token returned; without one
\* Exception is raised, its message built from error and error_description.
\* The lock is released either way.
ExchangeResult(t, reply) ==
  /\ UNCHANGED later_vars
  /\ thread[t].pc = "exchange"
  /\ _token_lock' = 0
  /\ IF reply.type = "access_token"
     THEN /\ issued' = issued + 1
          /\ _cached_token' = issued + 1
          /\ cache_expired' = FALSE
          /\ thread' = [thread EXCEPT ![t].pc = "done", ![t].reply = reply,
                                      ![t].token = issued + 1]
     ELSE /\ thread' = [thread EXCEPT ![t].pc = "done", ![t].reply = reply,
                           ![t].raised =
                              [type |-> "Exception", error |-> reply.error,
                               error_description |-> reply.error_description]]
          /\ UNCHANGED <<issued, _cached_token, cache_expired>>
  /\ UNCHANGED <<call, obs, _rate_limiters, _request_semaphore, _http_client, clients,
                 metrics, admitted, direct, last_clear, classified, rate_config>>

\* Lines 112-116: _cached_token = None, without the lock, and then
\* print(..., file=sys.stderr) in a module that does not import sys.
clear_token_cache(cached) ==
  [cached |-> 0, raised |-> [NoError EXCEPT !.type = "NameError"]]

ClearTokenCache(t) ==
  /\ UNCHANGED later_vars
  /\ thread[t].pc = "idle"
  /\ _cached_token' = clear_token_cache(_cached_token).cached
  /\ cache_expired' = FALSE
  /\ last_clear' = issued
  /\ thread' = [thread EXCEPT ![t] =
                   [IdleThread EXCEPT !.pc = "done", !.op = "clear_token_cache",
                       !.raised = clear_token_cache(_cached_token).raised]]
  /\ UNCHANGED <<call, obs, _rate_limiters, _request_semaphore, _http_client, clients,
                 issued, metrics, admitted, direct, _token_lock, classified,
                 rate_config>>

\* The lifetime (expires_in) of the token in _cached_token runs out.
Expire ==
  /\ UNCHANGED later_vars
  /\ _cached_token # 0
  /\ ~cache_expired
  /\ cache_expired' = TRUE
  /\ UNCHANGED <<pipeline_vars, direct, thread, _token_lock, last_clear,
                 classified, rate_config>>

\* The caller has the result, or has handled the exception, and goes on.
Again(t) ==
  /\ UNCHANGED later_vars
  /\ thread[t].pc = "done"
  /\ thread' = [thread EXCEPT ![t] = IdleThread]
  /\ UNCHANGED <<pipeline_vars, direct, _token_lock, cache_expired, last_clear,
                 classified, rate_config>>

NextAuth ==
  \/ \E t \in Threads : GetToken(t)
  \/ \E t \in Threads, reply \in ProviderReplies : ExchangeResult(t, reply)
  \/ \E t \in Threads : ClearTokenCache(t)
  \/ Expire
  \/ \E t \in Threads : Again(t)

SpecAuth == Init /\ [][NextAuth]_vars


\* ------------------------------------------- _get_endpoint_category, applied
\* The paths under test: up to MaxSegments of these segments in a row.
Segments ==
  {<<"/","u","s","e","r","s">>,
   <<"/","g","r","o","u","p","s">>,
   <<"/","a","l","i","c","e","@","c","o","r","p",".","c","o","m">>,
   <<"/","m","e","s","s","a","g","e","s">>,
   <<"/","m","a","i","l","F","o","l","d","e","r","s">>,
   <<"/","c","a","l","e","n","d","a","r">>,
   <<"/","e","v","e","n","t","s">>,
   <<"/","c","h","a","n","n","e","l","s">>,
   <<"/","s","e","a","r","c","h">>,
   <<"/","d","r","i","v","e">>,
   <<"/","o","n","l","i","n","e","M","e","e","t","i","n","g","s">>,
   <<"/","t","e","a","m","s">>,
   <<"/","m","e">>,
   <<"?","$","s","e","a","r","c","h","=","x">>}

RECURSIVE Join(_)
Join(q) == IF Len(q) = 0 THEN <<>> ELSE q[1] \o Join(Tail(q))

Paths == {Join(q) : q \in UNION {[1..n -> Segments] : n \in 1..MaxSegments}}

P_alice == <<"/","u","s","e","r","s","/","a","l","i","c","e","@","c","o","r","p",".","c","o","m">>
P_alice_messages == P_alice \o S_messages

\* The path get_channel_messages builds: /teams/{team_id}/channels/{channel_id}/messages
P_channel_messages ==
  <<"/","t","e","a","m","s","/","t","1">> \o S_channels \o <<"c","1">> \o S_messages

\* The condition of each `if` of _get_endpoint_category, on the lowercased
\* path, and the order the conditions are written in.
Matches(category, e) ==
  CASE category = "mail" -> Contains(e, S_messages) \/ Contains(e, S_mailfolder)
    [] category = "calendar" -> Contains(e, S_calendar) \/ Contains(e, S_events)
    [] category = "teams_messages" -> Contains(e, S_channels) /\ Contains(e, S_messages)
    [] category = "search" -> Contains(e, S_search) \/ Contains(e, S_dsearch)
    [] category = "users" -> /\ StartsWith(e, S_users) \/ StartsWith(e, S_groups)
                             /\ ~Contains(e, S_messages) /\ ~Contains(e, S_calendar)
    [] category = "files" -> Contains(e, S_drive) \/ Contains(e, S_drives)
    [] category = "meetings" -> Contains(e, S_onlinemeetings) \/ Contains(e, S_meetings)
    [] category = "global" -> TRUE

RuleOrder ==
  <<"mail", "calendar", "teams_messages", "search", "users", "files", "meetings",
    "global">>

InitClassify ==
  /\ InitLater
  /\ InitPipeline
  /\ direct = IdleDirect
  /\ InitAuth
  /\ classified \in {[path |-> p, category |-> "unset"] :
                       p \in Paths \cup {P_channel_messages}}
  /\ rate_config = Unconfigured

\* category = _get_endpoint_category(endpoint)
Classify ==
  /\ UNCHANGED later_vars
  /\ classified.category = "unset"
  /\ classified' = [classified EXCEPT !.category = _get_endpoint_category(classified.path)]
  /\ UNCHANGED <<pipeline_vars, direct, auth_vars, rate_config>>

SpecClassify == InitClassify /\ [][Classify]_vars


\* ------------------------------------------------- RATE_LIMIT_* strings
\* The configuration strings under test: one field, or two with a comma.
Fields ==
  {<<"1","0">>, <<"0">>, <<"-","5">>, <<"a","b","c">>, <<" ","7"," ">>, <<>>, <<"2",".","0">>, <<"6","0">>}

RateStrings == Fields \cup {f \o <<",">> \o g : f \in Fields, g \in Fields}

InitRateConfig ==
  /\ InitLater
  /\ InitPipeline
  /\ direct = IdleDirect
  /\ InitAuth
  /\ classified = Unclassified
  /\ rate_config \in {[Unconfigured EXCEPT !.rate_string = r] : r \in RateStrings}

\* get_rate_limiter for a category not yet cached (lines 110-126): the string
\* is parsed, AsyncLimiter(max_requests, time_period) is built and
\* max_requests / time_period is computed, by the constructor and for the log.
GetRateLimiter ==
  /\ UNCHANGED later_vars
  /\ rate_config.stage = "unset"
  /\ LET parsed == _parse_rate_limit(rate_config.rate_string) IN
       rate_config' =
         [rate_config EXCEPT
            !.max_requests = parsed[1], !.time_period = parsed[2],
            !.stage = IF parsed[2] = 0 THEN "raised" ELSE "created",
            !.raised = IF parsed[2] = 0 THEN "ZeroDivisionError" ELSE "none"]
  /\ UNCHANGED <<pipeline_vars, direct, auth_vars, classified>>

\* The first `async with rate_limiter` (graph.py line 115): aiolimiter's
\* acquire(1) raises ValueError when 1 exceeds max_rate, else the bucket,
\* empty so far, takes the permit.
AcquirePermit ==
  /\ UNCHANGED later_vars
  /\ rate_config.stage = "created"
  /\ rate_config' =
       [rate_config EXCEPT
          !.stage = IF 1 > rate_config.max_requests THEN "raised" ELSE "acquired",
          !.raised = IF 1 > rate_config.max_requests THEN "ValueError" ELSE "none"]
  /\ UNCHANGED <<pipeline_vars, direct, auth_vars, classified>>

NextRateConfig ==
  \/ GetRateLimiter
  \/ AcquirePermit

SpecRateConfig == InitRateConfig /\ [][NextRateConfig]_vars


\* -------------------------------------------------------------- metrics.py
\* round(num / den, 2) in hundredths: the nearest hundredth, a tie going to
\* the even one.
PyRound2(num, den) ==
  LET q == (100 * num) \div den
      r == (100 * num) % den
  IN IF 2 * r < den THEN q
     ELSE IF 2 * r > den THEN q + 1
     ELSE IF q % 2 = 0 THEN q ELSE q + 1

_calculate_success_rate_of_answered(m) ==
  IF m.success_count + m.error_count = 0 THEN 0
  ELSE PyRound2(100 * m.success_count, m.success_count + m.error_count)

\* _calculate_success_rate, in hundredths of a percent:
\* round((success_count / total_requests) * 100, 2), 0.0 without requests.
_calculate_success_rate(m) ==
  IF m.total_requests = 0 THEN 0
  ELSE PyRound2(100 * m.success_count, m.total_requests)

\* Status codes a sample can carry: 0 stands for a call that had no response.
SampleStatuses == Statuses \cup {0}

InFlightRecords == Cardinality({t \in RecorderThreads : recorder[t].pc # "idle"})
Recorded ==
  LET Sum[E \in SUBSET Endpoints] ==
        IF E = {} THEN 0
        ELSE LET e == CHOOSE x \in E : TRUE
             IN samples[e].ok + samples[e].failed + Sum[E \ {e}]
  IN Sum[Endpoints]

lock_free_always(lock) == TRUE

\* threading.Lock: acquire succeeds when nobody holds the lock.
lock_free(lock) == lock = 0

\* A thread calls record_request and comes to `with self._lock`.
RecordCall(t, endpoint, status_code) ==
  /\ recorder[t].pc = "idle"
  /\ Recorded + InFlightRecords < MaxSamples
  /\ recorder' = [recorder EXCEPT ![t] =
                     [IdleRecorder EXCEPT !.pc = "waiting", !.endpoint = endpoint,
                                          !.status_code = status_code]]
  /\ UNCHANGED <<pipeline_vars, direct, auth_vars, classified, rate_config, token_cache_vars,
                 server, metrics_lock, samples>>

\* The lock is acquired.
RecordEnter(t) ==
  /\ recorder[t].pc = "waiting"
  /\ lock_free(metrics_lock)
  /\ metrics_lock' = t
  /\ recorder' = [recorder EXCEPT ![t].pc = "locked"]
  /\ UNCHANGED <<pipeline_vars, direct, auth_vars, classified, rate_config, token_cache_vars,
                 server, samples>>

\* The counters are read (the load of each `+= 1`).
RecordLoad(t) ==
  /\ recorder[t].pc = "locked"
  /\ recorder' = [recorder EXCEPT ![t].pc = "loaded", ![t].loaded = metrics]
  /\ UNCHANGED <<pipeline_vars, direct, auth_vars, classified, rate_config, token_cache_vars,
                 server, metrics_lock, samples>>

\* The counters are written back (the store of each `+= 1`), the lock is
\* released and record_request returns.
RecordStore(t) ==
  /\ recorder[t].pc = "loaded"
  /\ metrics' = record_request(recorder[t].loaded, recorder[t].endpoint,
                               recorder[t].status_code)
  /\ metrics_lock' = 0
  /\ samples' = [samples EXCEPT ![recorder[t].endpoint] =
                    IF recorder[t].status_code \in 200..299
                    THEN [@ EXCEPT !.ok = @ + 1]
                    ELSE [@ EXCEPT !.failed = @ + 1]]
  /\ recorder' = [recorder EXCEPT ![t] = IdleRecorder]
  /\ UNCHANGED <<call, obs, _rate_limiters, _request_semaphore, _http_client, clients,
                 _cached_token, issued, admitted, direct, auth_vars, classified,
                 rate_config, token_cache_vars, server>>

NextMetrics ==
  \/ \E t \in RecorderThreads, e \in Endpoints, status \in SampleStatuses :
        RecordCall(t, e, status)
  \/ \E t \in RecorderThreads : RecordEnter(t)
  \/ \E t \in RecorderThreads : RecordLoad(t)
  \/ \E t \in RecorderThreads : RecordStore(t)

SpecMetrics == Init /\ [][NextMetrics]_vars


\* ------------------------------------------------------------------ main.py
\* The life of the process around one request() task: serving, then, from
\* the signal on, the finally block of run_server.
InFlight(c) == call[c].pc \in {"limiter", "slot", "network", "sleep"}

RECURSIVE FinallyAll(_, _)
FinallyAll(mc, S) ==
  IF S = {} THEN mc
  ELSE LET c == CHOOSE x \in S : TRUE
       IN FinallyAll(Finally(mc, call[c]), S \ {c})

\* handle_shutdown_signal sets _shutdown_event and raises KeyboardInterrupt
\* in the event loop; asyncio.run then cancels every task, and the finally
\* block of run_server cancels the server tasks (lines 85-87) before it waits
\* for them.  Every request() in flight gets CancelledError at the await it
\* is in and unwinds through request_slot and its finally block.
ShutdownSignal ==
  /\ server.phase = "serving"
  /\ server' = [server EXCEPT !.phase = "draining", !.waited = 0,
                              !.at_signal = {c \in Calls : call[c].pc # "idle"}]
  /\ call' = [c \in Calls |->
                IF InFlight(c) THEN [call[c] EXCEPT !.pc = "done", !.sleep_left = 0]
                ELSE call[c]]
  /\ obs' = [c \in Calls |->
               IF InFlight(c)
               THEN [obs[c] EXCEPT !.outcome = "CancelledError",
                                   !.rel = IF call[c].pc = "network" THEN @ + 1 ELSE @]
               ELSE obs[c]]
  /\ _request_semaphore' =
       _request_semaphore + Cardinality({c \in Calls : call[c].pc = "network"})
  /\ metrics' = FinallyAll(metrics, {c \in Calls : InFlight(c)})
  /\ UNCHANGED <<_rate_limiters, _http_client, clients, _cached_token, issued, admitted,
                 direct, auth_vars, classified, rate_config, token_cache_vars, recorder_vars>>

\* asyncio.wait_for(asyncio.gather(*tasks, return_exceptions=True),
\* timeout=_shutdown_timeout): the cancelled server tasks have all ended, or
\* the timeout has run out.
TasksEnded ==
  /\ server.phase = "draining"
  /\ server' = [server EXCEPT !.phase = "closing_http", !.waited = 0]
  /\ UNCHANGED <<pipeline_vars, direct, auth_vars, classified, rate_config, token_cache_vars,
                 recorder_vars>>

\* wait_for(close_http_client(), timeout=5): the client is closed and
\* _http_client set to None, or aclose() is still pending when the 5 seconds
\* are over (TimeoutError, caught), or aclose() raises (caught by nothing: the
\* exception leaves the finally block).  AsyncClient.aclose() marks the
\* instance closed before it awaits the transport, so the instance is closed
\* in all three cases.
CloseHttp(outcome) ==
  /\ server.phase = "closing_http"
  /\ outcome = "timeout" => (_http_client # 0 /\ server.waited = CloseTimeout)
  /\ outcome = "raised" => _http_client # 0
  /\ _http_client' = IF outcome = "closed" THEN 0 ELSE _http_client
  /\ clients' = IF _http_client # 0
                THEN [clients EXCEPT ![_http_client] = "closed"]
                ELSE clients
  /\ server' = [server EXCEPT !.http = outcome, !.waited = 0,
                   !.phase = IF outcome = "raised" THEN "failed" ELSE "closing_db"]
  /\ UNCHANGED <<call, obs, _rate_limiters, _request_semaphore, _cached_token,
                 issued, metrics, admitted, direct, auth_vars, classified,
                 rate_config, token_cache_vars, recorder_vars>>

\* wait_for(close_async_db_engine(), timeout=5), likewise; then "Shutdown
\* complete".
CloseDb(outcome) ==
  /\ server.phase = "closing_db"
  /\ outcome = "timeout" => server.waited = CloseTimeout
  /\ server' = [server EXCEPT !.db = outcome, !.waited = 0,
                   !.phase = IF outcome = "raised" THEN "failed" ELSE "complete"]
  /\ UNCHANGED <<pipeline_vars, direct, auth_vars, classified, rate_config, token_cache_vars,
                 recorder_vars>>

\* The event loop runs until run_server has ended.
LoopRuns == server.phase \in {"serving", "draining", "closing_http", "closing_db"}

TimeLimit ==
  CASE server.phase = "draining" -> _shutdown_timeout
    [] server.phase \in {"closing_http", "closing_db"} -> CloseTimeout
    [] OTHER -> 0

\* A second passes, for the pipeline and for the wait_for in progress.
ShutdownTick ==
  /\ LoopRuns
  /\ server.phase # "serving" => server.waited < TimeLimit
  /\ TickPipeline
  /\ server' = [server EXCEPT !.waited = IF server.phase = "serving" THEN 0
                                          ELSE @ + 1]
  /\ UNCHANGED <<direct, auth_vars, classified, rate_config, token_cache_vars, recorder_vars>>

\* The request() task, run by the event loop while there is one.
LoopRequest(endpoint, max_retries, ok) == LoopRuns /\ Request(1, endpoint, max_retries, ok)
LoopResponse(status, hdr) == LoopRuns /\ Response(1, status, hdr)
LoopNetworkError == LoopRuns /\ NetworkError(1)
LoopWake == LoopRuns /\ Wake(1)

NextShutdown ==
  \/ \E e \in Endpoints, mr \in MaxRetriesArgs, ok \in BOOLEAN : LoopRequest(e, mr, ok)
  \/ \E status \in Statuses :
        \E hdr \in (IF status = 429 THEN RetryAfterHeaders ELSE {Absent}) :
           LoopResponse(status, hdr)
  \/ LoopNetworkError
  \/ LoopWake
  \/ ShutdownSignal
  \/ TasksEnded
  \/ \E outcome \in {"closed", "timeout", "raised"} : CloseHttp(outcome)
  \/ \E outcome \in {"closed", "timeout", "raised"} : CloseDb(outcome)
  \/ ShutdownTick

SpecShutdown == Init /\ [][NextShutdown]_vars


\* ---------------------------------------------------------- token_cache.py
\* TokenCache of the archived hybrid server, for one user_id.  A token's
\* expires_at is "valid" (more than 5 minutes ahead), "expiring" (within the
\* 5 minute buffer) or "expired"; refresh_token 0 is None.  The cache file
\* that _save_cache writes is left out: no method reads it after __init__.
TokenData ==
  [access_token : {1}, refresh_token : {0, 1},
   expires_at : {"valid", "expiring", "expired"}]

\* What _load_cache can have read: no entry, or one for the user.
CacheFiles == {NoTokens} \cup {[u \in {USER_ID} |-> d] : d \in TokenData}

InitTokenCache ==
  /\ InitServing
  /\ InitPipeline
  /\ direct = IdleDirect
  /\ InitAuth
  /\ classified = Unclassified
  /\ rate_config = Unconfigured
  /\ cache_thread = [t \in CacheThreads |-> IdleCacheThread]
  /\ _lock = 0
  /\ _cache \in CacheFiles

not_token_vars ==
  <<pipeline_vars, direct, auth_vars, classified, rate_config, server,
    recorder_vars>>

\* A thread calls get_token(user_id) and comes to `with self._lock` (line 53).
CacheGetToken(t) ==
  /\ cache_thread[t].pc = "idle"
  /\ cache_thread' = [cache_thread EXCEPT ![t].pc = "lock", ![t].op = "get_token"]
  /\ UNCHANGED <<_lock, _cache, not_token_vars>>

\* A thread calls save_token(user_id, access_token, refresh_token) and comes
\* to `with self._lock` (line 86).
CacheSaveToken(t, access_token, refresh_token) ==
  /\ cache_thread[t].pc = "idle"
  /\ cache_thread' = [cache_thread EXCEPT ![t] =
        [IdleCacheThread EXCEPT !.pc = "save_lock", !.op = "save_token",
                                !.access_token = access_token,
                                !.refresh_token = refresh_token]]
  /\ UNCHANGED <<_lock, _cache, not_token_vars>>

\* get_token has the lock: lines 54-66.  It returns inside the `with`, which
\* releases the lock, except when it calls _refresh_token, which it does with
\* the lock held.
CacheEnter(t) ==
  /\ cache_thread[t].pc = "lock"
  /\ lock_free(_lock)
  /\ IF USER_ID \notin DOMAIN _cache
     THEN /\ cache_thread' = [cache_thread EXCEPT ![t].pc = "done",
                                                  ![t].result = "None"]
          /\ UNCHANGED <<_lock, _cache>>
     ELSE IF _cache[USER_ID].expires_at = "valid"
     THEN /\ cache_thread' = [cache_thread EXCEPT ![t].pc = "done",
                                                  ![t].result = "token_data",
                                                  ![t].token_data = _cache[USER_ID]]
          /\ UNCHANGED <<_lock, _cache>>
     ELSE IF _cache[USER_ID].refresh_token # 0
     THEN /\ cache_thread' = [cache_thread EXCEPT ![t].pc = "refresh",
                ![t].refresh_token = _cache[USER_ID].refresh_token]
          /\ _lock' = t
          /\ UNCHANGED _cache
     ELSE /\ cache_thread' = [cache_thread EXCEPT ![t].pc = "done",
                                                  ![t].result = "None"]
          /\ _cache' = NoTokens
          /\ UNCHANGED _lock
  /\ UNCHANGED not_token_vars

\* app.acquire_token_by_refresh_token returns (lines 122-140).  With an
\* access_token in the result _refresh_token calls self.save_token, which
\* comes to `with self._lock`; with an error, or an exception, it returns
\* None and get_token deletes the entry and returns None (lines 71-73).
CacheRefreshResult(t, reply) ==
  /\ cache_thread[t].pc = "refresh"
  /\ IF reply.granted
     THEN /\ cache_thread' = [cache_thread EXCEPT ![t].pc = "save_lock",
                ![t].refreshed = TRUE,
                ![t].access_token = 2,
                ![t].refresh_token = IF reply.refresh_token # 0
                                     THEN reply.refresh_token ELSE @]
          /\ UNCHANGED <<_lock, _cache>>
     ELSE /\ cache_thread' = [cache_thread EXCEPT ![t].pc = "done",
                                                  ![t].result = "None"]
          /\ _cache' = NoTokens
          /\ _lock' = 0
  /\ UNCHANGED not_token_vars

\* save_token has the lock: lines 87-96.  Called by a thread of its own it
\* returns None; called from _refresh_token it returns into line 135 and
\* get_token returns the stored entry.  threading.Lock is not reentrant:
\* the acquire waits also when the caller itself holds the lock.
CacheSaveEnter(t) ==
  /\ cache_thread[t].pc = "save_lock"
  /\ lock_free(_lock)
  /\ LET entry == [access_token |-> cache_thread[t].access_token,
                   refresh_token |-> cache_thread[t].refresh_token,
                   expires_at |-> "valid"]
     IN /\ _cache' = [u \in {USER_ID} |-> entry]
        /\ cache_thread' = [cache_thread EXCEPT ![t].pc = "done",
               ![t].result = IF cache_thread[t].op = "get_token" THEN "token_data"
                             ELSE "None",
               ![t].token_data = IF cache_thread[t].op = "get_token" THEN entry
                                 ELSE @]
  /\ UNCHANGED <<_lock, not_token_vars>>

\* Time passes: the cached token comes within 5 minutes of its expiry, then
\* past it.
CacheAge ==
  /\ USER_ID \in DOMAIN _cache
  /\ _cache[USER_ID].expires_at # "expired"
  /\ _cache' = [_cache EXCEPT ![USER_ID].expires_at =
                   IF @ = "valid" THEN "expiring" ELSE "expired"]
  /\ UNCHANGED <<cache_thread, _lock, not_token_vars>>

RefreshReplies ==
  {[granted |-> TRUE, refresh_token |-> 0], [granted |-> TRUE, refresh_token |-> 2],
   [granted |-> FALSE, refresh_token |-> 0]}

NextTokenCache ==
  \/ \E t \in CacheThreads : CacheGetToken(t)
  \/ \E t \in CacheThreads, rt \in {0, 3} : CacheSaveToken(t, 3, rt)
  \/ \E t \in CacheThreads : CacheEnter(t)
  \/ \E t \in CacheThreads, reply \in RefreshReplies : CacheRefreshResult(t, reply)
  \/ \E t \in CacheThreads : CacheSaveEnter(t)
  \/ CacheAge

\* Every thread that can take a step is run in the end.
SpecTokenCache ==
  InitTokenCache /\ [][NextTokenCache]_vars
     /\ \A t \in CacheThreads :
           WF_vars(CacheGetToken(t) \/ CacheEnter(t) \/ CacheSaveEnter(t)
                   \/ \E reply \in RefreshReplies : CacheRefreshResult(t, reply))


\* ------------------------------------------------------------------ claims
Done(c) == call[c].pc = "done"
Holders == {c \in Calls : call[c].pc = "network"}
SamplesOf(endpoint) ==
  IF endpoint \in DOMAIN metrics.endpoints
  THEN metrics.endpoints[endpoint].total_requests ELSE 0

\* C1: every logical call that has ended, however it ended (body returned,
\* 4xx raised, retries exhausted, network exception, no token, cancelled),
\* has put exactly one sample into the metrics collector, and a call that has
\* not ended has put none: the samples counted, globally and per endpoint,
\* are as many as the calls that have ended.
C1_OneSamplePerCall ==
  /\ metrics.global.total_requests = Cardinality({c \in Calls : Done(c)})
  /\ \A e \in Endpoints :
        SamplesOf(e) = Cardinality({c \in Calls : Done(c) /\ call[c].endpoint = e})

\* A call that gave up after retrying and a call that got no token have both
\* ended, and two samples are recorded.
C1_Witness ==
  \E c1, c2 \in Calls :
     /\ obs[c1].outcome = "HTTPStatusError" /\ obs[c1].net_calls > 1
     /\ obs[c2].outcome = "Exception" /\ obs[c2].net_calls = 0
     /\ metrics.global.total_requests = 2

\* C2: the number of tasks inside request_slot (in their network call) is at
\* most MAX_CONCURRENT_REQUESTS in every reachable state.
C2_ConcurrencyCeiling == Cardinality(Holders) <= MAX_CONCURRENT_REQUESTS

\* The gate is full and another task waits for a slot.
C2_Witness ==
  /\ Cardinality(Holders) = MAX_CONCURRENT_REQUESTS
  /\ \E c \in Calls : call[c].pc = "slot"

\* C3: every slot acquired is released exactly once on every exit path: a
\* task has released as many slots as it acquired, less the one it holds while
\* in its network call; once it has ended it holds none; and the free slots of
\* the semaphore are the ceiling less the slots held.
C3_SlotsReleasedOnce ==
  /\ \A c \in Calls :
        /\ obs[c].rel <= obs[c].acq
        /\ obs[c].acq - obs[c].rel = (IF c \in Holders THEN 1 ELSE 0)
        /\ Done(c) => obs[c].rel = obs[c].acq
  /\ _request_semaphore # NoValue =>
        _request_semaphore = MAX_CONCURRENT_REQUESTS - Cardinality(Holders)

\* One task left its guarded block by a transport error, another by being
\* cancelled in its first network call; both slots are back.
C3_Witness ==
  \E c1, c2 \in Calls :
     /\ obs[c1].outcome = "RequestError" /\ obs[c1].rel = 1
     /\ obs[c2].outcome = "CancelledError" /\ obs[c2].net_calls = 1
     /\ obs[c2].resp_status = 0 /\ obs[c2].rel = 1
     /\ _request_semaphore = MAX_CONCURRENT_REQUESTS

\* C4: for every category, the permits granted within any time_period
\* seconds are at most max_requests.
C4_QuotaWindow ==
  \A k \in Categories : Len(admitted[k]) <= RateLimitOf(k)[1]

\* C5: a call with max_retries = R issues at most R+1 network calls, and
\* exactly R+1 when every response was a 5xx.
C5_AttemptBound ==
  \A c \in Calls :
     /\ obs[c].net_calls <= call[c].max_retries + 1
     /\ (obs[c].outcome = "HTTPStatusError" /\ obs[c].only5xx)
           => obs[c].net_calls = call[c].max_retries + 1

\* max_retries = 3 and only 5xx responses: 4 network calls, then the raise.
C5_Witness ==
  \E c \in Calls :
     /\ call[c].max_retries = 3 /\ obs[c].only5xx
     /\ obs[c].outcome = "HTTPStatusError" /\ obs[c].net_calls = 4

\* C6: a call whose max_retries+1 attempts all ended in a 429 or a 5xx
\* response has raised MaxRetriesExceededError.
C6_RaisesMaxRetriesExceeded ==
  \A c \in Calls :
     (/\ Done(c) /\ obs[c].outcome # "CancelledError"
      /\ obs[c].net_calls = call[c].max_retries + 1
      /\ obs[c].resp_attempt = call[c].max_retries
      /\ (obs[c].resp_status = 429 \/ obs[c].resp_status >= 500))
        => obs[c].outcome = "MaxRetriesExceededError"

\* C7: a response in 400..499 other than 429 ends the call at once: the error
\* is raised, no sleep follows that network call and no attempt is made after.
C7_ClientErrorNotRetried ==
  \A c \in Calls :
     (obs[c].resp_status >= 400 /\ obs[c].resp_status <= 499
      /\ obs[c].resp_status # 429)
        => /\ Done(c) /\ obs[c].outcome = "HTTPStatusError"
           /\ obs[c].net_calls = obs[c].resp_attempt + 1
           /\ obs[c].sleeps = obs[c].resp_attempt

\* A first response of 404 with three retries allowed: one network call, no
\* sleep, the error raised.
C7_Witness ==
  \E c \in Calls :
     /\ obs[c].resp_status = 404 /\ call[c].max_retries = 3
     /\ obs[c].net_calls = 1 /\ obs[c].sleeps = 0
     /\ obs[c].outcome = "HTTPStatusError"

\* '/mailFolders/' in endpoint or '/messages' in endpoint (graph.py line 184)
IsMailSubPath(endpoint) ==
  \/ Contains(endpoint, <<"/","m","a","i","l","F","o","l","d","e","r","s","/">>)
  \/ Contains(endpoint, S_messages)

\* C8: a 404 on a mail sub-path makes request raise ResourceNotFoundError.
C8_MailNotFoundError ==
  \A c \in Calls :
     (Done(c) /\ obs[c].resp_status = 404 /\ IsMailSubPath(call[c].endpoint))
        => obs[c].outcome = "ResourceNotFoundError"

\* C9: a transport failure of an attempt is not propagated while attempts
\* remain: a call that ended with the transport error had used them all.
C9_NetworkFailureRetried ==
  \A c \in Calls :
     obs[c].outcome = "RequestError"
        => obs[c].net_calls = call[c].max_retries + 1

\* C10: on a 429 with attempts remaining the call sleeps, and for
\* min(retry_after, RETRY_MAX_WAIT) seconds, retry_after the Retry-After value
\* or 5 without the header.
C10_RateLimitSleep ==
  \A c \in Calls :
     (/\ obs[c].resp_status = 429 /\ obs[c].outcome # "CancelledError"
      /\ obs[c].resp_attempt = call[c].retry_count
      /\ call[c].retry_count < call[c].max_retries)
        => /\ call[c].pc = "sleep"
           /\ RetryAfter(obs[c].resp_hdr).ok =>
                obs[c].last_sleep = Min(RetryAfter(obs[c].resp_hdr).val, RETRY_MAX_WAIT)

\* C11: a call answered 429 on its first attempt and 200 on its second has
\* issued exactly 2 network calls and returns the body, and the step that ends
\* it records one sample counted as a success: total_requests and success_count
\* go up by 1, error_count and rate_limit_count stay, globally and for the
\* endpoint.
EndpointMetrics(mc, endpoint) ==
  IF endpoint \in DOMAIN mc.endpoints THEN mc.endpoints[endpoint] ELSE NewMetrics

SuccessSample(before, after) ==
  /\ after.total_requests = before.total_requests + 1
  /\ after.success_count = before.success_count + 1
  /\ after.error_count = before.error_count
  /\ after.rate_limit_count = before.rate_limit_count

C11_RetryThenSuccess ==
  [][\A c \in Calls :
       (/\ call[c].pc = "network" /\ call'[c].pc # "network"
        /\ call[c].retry_count = 1 /\ call[c].error_type = "rate_limit"
        /\ obs'[c].rel = obs[c].rel + 1
        /\ obs'[c].resp_status = 200 /\ obs'[c].resp_attempt = 1)
          => /\ obs'[c].outcome = "returned"
             /\ obs'[c].net_calls = 2
             /\ SuccessSample(metrics.global, metrics'.global)
             /\ SuccessSample(EndpointMetrics(metrics, call[c].endpoint),
                              EndpointMetrics(metrics', call[c].endpoint))]_vars

C11_Witness ==
  \E c \in Calls :
     /\ Done(c) /\ obs[c].outcome = "returned"
     /\ call[c].error_type = "rate_limit" /\ obs[c].resp_attempt = 1
     /\ obs[c].resp_status = 200 /\ obs[c].net_calls = 2 /\ obs[c].sleeps = 1
     /\ metrics.global.success_count = 1 /\ metrics.global.rate_limit_count = 0

\* C12: a response with status >= 500 at attempt index i (from 0) with
\* attempts remaining puts the call to sleep for exactly 2^i seconds.
C12_ServerErrorBackoff ==
  \A c \in Calls :
     (/\ obs[c].resp_status >= 500 /\ obs[c].outcome # "CancelledError"
      /\ obs[c].resp_attempt = call[c].retry_count
      /\ call[c].retry_count < call[c].max_retries)
        => /\ call[c].pc = "sleep"
           /\ obs[c].last_sleep = 2 ^ obs[c].resp_attempt
           /\ call[c].sleep_left <= obs[c].last_sleep

C12_Witness ==
  \E c \in Calls :
     /\ call[c].pc = "sleep" /\ obs[c].resp_status = 500
     /\ obs[c].resp_attempt = 2 /\ obs[c].last_sleep = 4 /\ call[c].sleep_left = 4

\* C13: the error-type tag handed to record_request for a call is one of
\* rate_limit, server_error, client_error and none, and matches how the call
\* ended: none after a returned body, server_error after a last 5xx,
\* rate_limit after a last 429, client_error after another last 4xx.
C13_ErrorTypeMatchesOutcome ==
  \A c \in Calls :
     (Done(c) /\ obs[c].outcome \in {"returned", "HTTPStatusError"})
        => /\ call[c].error_type \in
                {"rate_limit", "server_error", "client_error", "None"}
           /\ obs[c].outcome = "returned" => call[c].error_type = "None"
           /\ call[c].status_code >= 500 => call[c].error_type = "server_error"
           /\ call[c].status_code = 429 => call[c].error_type = "rate_limit"
           /\ (call[c].status_code \in 400..499 /\ call[c].status_code # 429)
                 => call[c].error_type = "client_error"

\* C14: every outbound HTTP call of a wrapper goes through the pipeline: a
\* permit and a slot were acquired for each network call issued, by request()
\* and by get_transcript_content alike, and every wrapper call that has ended
\* has one sample in the metrics.
C14_AllCallsThroughPipeline ==
  /\ \A c \in Calls :
        obs[c].net_calls <= obs[c].permits /\ obs[c].net_calls <= obs[c].acq
  /\ direct.net_calls <= direct.permits /\ direct.net_calls <= direct.acq
  /\ metrics.global.total_requests
        = Cardinality({c \in Calls : Done(c)})
            + (IF direct.pc = "done" THEN 1 ELSE 0)

\* C15: get_token starts an exchange with the identity provider only when
\* _cached_token holds no token or an expired one; with a valid cached token
\* it returns without an exchange.
C15_ExchangeOnlyWithoutValidToken ==
  [][\A t \in Threads :
       (thread[t].pc = "idle" /\ thread'[t].pc = "exchange")
          => (_cached_token = 0 \/ cache_expired)]_vars

\* C16: a get_token called after clear_token_cache performs an exchange and
\* returns a token issued after that clear_token_cache call.
C16_FreshTokenAfterClear ==
  \A t \in Threads :
     (/\ thread[t].op = "get_token" /\ thread[t].pc = "done"
      /\ thread[t].raised = NoError /\ thread[t].mark # NoValue)
        => thread[t].exchanged /\ thread[t].token > thread[t].mark

C16_Witness ==
  \E t \in Threads :
     /\ thread[t].op = "get_token" /\ thread[t].pc = "done"
     /\ thread[t].raised = NoError /\ thread[t].mark >= 1
     /\ thread[t].exchanged /\ thread[t].token > thread[t].mark

\* C17: clear_token_cache completes without raising.
C17_ClearCompletesNormally ==
  \A t \in Threads :
     (thread[t].op = "clear_token_cache" /\ thread[t].pc = "done")
        => thread[t].raised = NoError

\* C18: when the exchange returns no access token get_token raises
\* AuthenticationError, carrying the provider's error and error_description.
C18_RaisesAuthenticationError ==
  \A t \in Threads :
     (/\ thread[t].op = "get_token" /\ thread[t].pc = "done"
      /\ thread[t].reply.type = "error")
        => /\ thread[t].raised.type = "AuthenticationError"
           /\ thread[t].raised.error = thread[t].reply.error
           /\ thread[t].raised.error_description = thread[t].reply.error_description

\* C19: _get_endpoint_category returns the category of the first rule, in the
\* order mail, calendar, teams_messages, search, users, files, meetings,
\* global, whose condition the path meets; /users/alice@corp.com/messages is
\* mail and /users/alice@corp.com is users.
C19_FirstMatchWins ==
  classified.category # "unset" =>
     /\ \E i \in 1..Len(RuleOrder) :
           /\ classified.category = RuleOrder[i]
           /\ Matches(RuleOrder[i], Lower(classified.path))
           /\ \A j \in 1..(i - 1) : ~Matches(RuleOrder[j], Lower(classified.path))
     /\ classified.path = P_alice_messages => classified.category = "mail"
     /\ classified.path = P_alice => classified.category = "users"

C19_Witness ==
  /\ classified.path = P_alice_messages
  /\ classified.category = "mail"

\* C20: a malformed rate-limit string (a field that is not a number, no
\* second field, or a count or window that is zero or negative) makes
\* get_rate_limiter use 100 requests per 60 seconds, and neither
\* get_rate_limiter nor the acquisition that follows raises.
Malformed(rate_limit_str) ==
  LET parts == Split(rate_limit_str, ",") IN
    \/ Len(parts) < 2
    \/ ~PyInt(parts[1]).ok
    \/ ~PyFloat(parts[2]).ok
    \/ PyInt(parts[1]).val <= 0
    \/ PyFloat(parts[2]).val <= 0

C20_MalformedFallsBack ==
  (rate_config.stage # "unset" /\ Malformed(rate_config.rate_string))
     => /\ rate_config.max_requests = DefaultMaxRequests
        /\ rate_config.time_period = DefaultTimePeriod
        /\ rate_config.raised = "none"

\* C21: with N samples of a 2xx status and M of any other outcome recorded
\* for an endpoint, its success_rate is round(100*N/(N+M), 2), and 0.0 with
\* no sample (rates in hundredths of a percent).
C21_SuccessRate ==
  \A e \in Endpoints :
     _calculate_success_rate(EndpointMetrics(metrics, e))
        = IF samples[e].ok + samples[e].failed = 0 THEN 0
          ELSE PyRound2(100 * samples[e].ok, samples[e].ok + samples[e].failed)

C21_Witness ==
  /\ samples[E_USER] = [ok |-> 2, failed |-> 1]
  /\ metrics.endpoints[E_USER].error_count = 0
  /\ _calculate_success_rate(metrics.endpoints[E_USER]) = 6667

\* C22: no record_request call is lost: when k calls have completed, from
\* whatever threads, the global total_requests is k.
C22_NoLostSample == metrics.global.total_requests = Recorded

C22_Witness ==
  /\ Recorded >= 2
  /\ \E t, u \in RecorderThreads :
        recorder[t].pc = "loaded" /\ recorder[u].pc = "waiting"

\* C23: once the shutdown signal has been received no new request() call is
\* admitted: a call that had not started when the signal came never reaches
\* a network attempt.
C23_NoAdmissionAfterSignal ==
  server.phase # "serving" =>
     \A c \in Calls \ server.at_signal : obs[c].net_calls = 0

\* C24: no work in flight is cancelled before the grace period of 25 seconds
\* after the signal has run out.
C24_GraceBeforeCancel ==
  \A c \in Calls :
     obs[c].outcome = "CancelledError"
        => /\ server.phase # "serving"
           /\ server.phase = "draining" => server.waited >= _shutdown_timeout

\* C25: however the release of the HTTP client ends (closed, timed out,
\* failed), the release of the DB engine is attempted after it.
C25_BothReleasesAttempted ==
  (server.http # "none" /\ server.phase \in {"complete", "failed"})
     => server.db # "none"

\* C26 as stated: a call that has ended has consumed as many permits as it has
\* issued network calls.
C26_PermitsEqualNetworkCalls ==
  \A c \in Calls : Done(c) => obs[c].permits = obs[c].net_calls

\* C26, amended: every attempt, retries included, acquires one fresh permit
\* before it asks for a slot: a call in network call number i+1 (retry_count
\* i) has consumed i+1 permits, and a call has consumed as many permits as it
\* has issued network calls, plus one only while it waits for a slot or if it
\* was cancelled while waiting for one.
C26_PermitPerAttempt ==
  \A c \in Calls :
     /\ obs[c].net_calls <= obs[c].permits
     /\ obs[c].permits <= obs[c].net_calls + 1
     /\ obs[c].permits = obs[c].net_calls + 1
          => (call[c].pc = "slot" \/ obs[c].outcome = "CancelledError")
     /\ call[c].pc = "network"
          => (obs[c].permits = call[c].retry_count + 1
              /\ obs[c].net_calls = call[c].retry_count + 1)

C26_Witness ==
  \E c1, c2 \in Calls :
     /\ call[c1].pc = "network" /\ call[c1].retry_count = 1
     /\ obs[c1].permits = 2 /\ obs[c1].net_calls = 2
     /\ obs[c2].outcome = "CancelledError"
     /\ obs[c2].permits = 1 /\ obs[c2].net_calls = 0

\* C27: a call holds a slot only during its network call: none while it waits
\* for a permit or a slot, sleeps in backoff or has ended; it has taken no
\* more slots than permits; and with no call in its network call every slot
\* is free.
C27_SlotOnlyDuringNetworkCall ==
  /\ \A c \in Calls :
        /\ call[c].pc \in {"idle", "limiter", "slot", "sleep", "done"}
              => obs[c].acq = obs[c].rel
        /\ obs[c].acq <= obs[c].permits
  /\ (Holders = {} /\ _request_semaphore # NoValue)
        => _request_semaphore = MAX_CONCURRENT_REQUESTS

C27_Witness ==
  \E c1, c2 \in Calls :
     /\ call[c1].pc = "sleep" /\ call[c1].sleep_left > 0 /\ obs[c1].rel = 1
     /\ call[c2].pc = "network"
     /\ _request_semaphore = MAX_CONCURRENT_REQUESTS - 1

\* C28: a call takes its token once, before its first attempt, and sends
\* that token on every attempt: the tokens its network calls carried are the
\* one token it holds, and as many tokens have been issued as calls took one.
C28_OneTokenPerCall ==
  /\ \A c \in Calls :
        obs[c].net_calls >= 1
           => (call[c].token # 0 /\ obs[c].sent = {call[c].token})
  /\ issued = Cardinality({c \in Calls : call[c].token # 0})

C28_Witness ==
  \E c1, c2 \in Calls :
     /\ obs[c1].net_calls = 3 /\ obs[c1].sent = {call[c1].token}
     /\ call[c2].token # 0 /\ call[c2].token # call[c1].token

\* C29: at most one thread is inside the critical section of get_token, and
\* clear_token_cache writes the cache only while no thread is inside it.
C29_CredentialOpsExclusive ==
  [][/\ Cardinality({t \in Threads : thread'[t].pc = "exchange"}) <= 1
     /\ \A t \in Threads :
          (thread[t].pc = "idle" /\ thread'[t].op = "clear_token_cache")
             => _token_lock = 0]_vars

\* C30: one AsyncLimiter is constructed per category, whatever the number of
\* calls, concurrent ones included, that use the category.
C30_OneLimiterPerCategory ==
  /\ \A k \in DOMAIN _rate_limiters : _rate_limiters[k].instance = 1
  /\ \A c \in Calls :
        obs[c].permits >= 1
           => _get_endpoint_category(call[c].endpoint) \in DOMAIN _rate_limiters

C30_Witness ==
  \E c1, c2 \in Calls :
     /\ c1 # c2 /\ call[c1].endpoint = call[c2].endpoint
     /\ call[c1].pc = "network" /\ call[c2].pc = "slot"
     /\ obs[c1].permits = 1 /\ obs[c2].permits = 1
     /\ LET k == _get_endpoint_category(call[c1].endpoint)
        IN /\ _rate_limiters[k].instance = 1
           /\ _rate_limiters[k].level = 2 * RateLimitOf(k)[2]

\* C33 as stated: in every aggregate total_requests is success_count plus
\* error_count, whatever the samples recorded were.
C33_TotalIsSuccessPlusError ==
  /\ metrics.global.total_requests
        = metrics.global.success_count + metrics.global.error_count
  /\ \A e \in DOMAIN metrics.endpoints :
        metrics.endpoints[e].total_requests
           = metrics.endpoints[e].success_count + metrics.endpoints[e].error_count

\* C35 as stated: no backoff sleep of a call is longer than RETRY_MAX_WAIT.
C35_SleepWithinCeiling ==
  \A c \in Calls : obs[c].last_sleep <= RETRY_MAX_WAIT

\* C39 as stated: a get_token whose refresh succeeded returns the refreshed
\* token data, which is then the entry of the cache.
C39_RefreshedTokenReturned ==
  \A t \in CacheThreads :
     (cache_thread[t].op = "get_token" /\ cache_thread[t].refreshed)
        ~> (/\ cache_thread[t].pc = "done"
            /\ cache_thread[t].result = "token_data"
            /\ cache_thread[t].token_data.access_token = 2)

\* C32: each counter of the global aggregate is the sum of that counter over
\* the per-endpoint aggregates.
C32_GlobalIsSumOfEndpoints ==
  LET Sum(f) ==
        LET S[E \in SUBSET DOMAIN metrics.endpoints] ==
              IF E = {} THEN 0
              ELSE LET e == CHOOSE x \in E : TRUE
                   IN metrics.endpoints[e][f] + S[E \ {e}]
        IN S[DOMAIN metrics.endpoints]
  IN \A f \in {"total_requests", "success_count", "error_count",
               "rate_limit_count", "server_error_count"} :
        metrics.global[f] = Sum(f)

C32_Witness ==
  /\ DOMAIN metrics.endpoints = Endpoints
  /\ metrics.global.total_requests = 4
  /\ metrics.global.rate_limit_count = 1
  /\ metrics.global.server_error_count = 1
  /\ metrics.global.success_count = 1
  /\ \A e \in Endpoints : metrics.endpoints[e].total_requests = 2

\* C34 as stated: a call returns a body only when its last response had a
\* status in [200,300).
C34_BodyOnlyFor2xx ==
  \A c \in Calls :
     obs[c].outcome = "returned"
        => (200 <= obs[c].resp_status /\ obs[c].resp_status < 300)

\* C38 as stated: the path of get_channel_messages is put into the category
\* teams_messages.
C38_ChannelMessagesAreTeamsMessages ==
  (classified.path = P_channel_messages /\ classified.category # "unset")
     => classified.category = "teams_messages"

\* C31: at most one shared client is open at a time: every instance but the
\* one _http_client refers to has been closed, and every call that took the
\* client holds that one instance unless its instance has been closed since.
C31_OneSharedClient ==
  /\ _http_client \in 0..Len(clients)
  /\ \A i \in 1..Len(clients) : i # _http_client => clients[i] = "closed"
  /\ \A c \in Calls :
        call[c].client # 0
           => (call[c].client = _http_client \/ clients[call[c].client] = "closed")

C31_Witness ==
  \E c1, c2 \in Calls :
     /\ call[c1].pc = "network" /\ call[c2].pc = "slot"
     /\ obs[c1].net_calls = 1 /\ obs[c2].net_calls = 0
     /\ call[c1].client = 1 /\ call[c2].client = 1
     /\ clients = <<"open">>

\* C36 as stated: whenever a call issues a network call, the client it
\* issues it on is open.
C36_NoAttemptOnClosedClient ==
  [][\A c \in Calls :
        obs'[c].net_calls > obs[c].net_calls
           => clients'[call'[c].client] = "open"]_vars

\* C37: under fair scheduling every request() call that has started ends,
\* by returning or raising; in particular no call waits for ever for a
\* permit or a slot.
C37_EveryCallTerminates ==
  \A c \in Calls : (call[c].pc # "idle") ~> (call[c].pc = "done")

C37_Witness ==
  \E c1, c2 \in Calls :
     /\ Done(c1) /\ obs[c1].outcome = "returned" /\ obs[c1].sleeps >= 2
     /\ obs[c1].permits = 3
     /\ Done(c2) /\ obs[c2].outcome = "HTTPStatusError" /\ obs[c2].net_calls = 2
     /\ obs[c2].acq = 2

====
